---------------------------- MODULE Spec2Model ----------------------------
(***************************************************************************)
(* Contact book of task01.py / task02.py: the validated fields (Name,      *)
(* Phone, Birthday), Record, AddressBook and the command loop of           *)
(* task02.py.                                                              *)
(*                                                                         *)
(* Python strings that the code inspects character by character (phones,   *)
(* dates) are sequences of one-character strings; names and command words, *)
(* which the code only tests for emptiness and equality, are TLA+ strings. *)
(* An optional value (None or an object) is the empty sequence or a        *)
(* one-element sequence.  A raised exception is the `raised' field of an   *)
(* operation's outcome: "" when the call returned normally.                *)
(***************************************************************************)
EXTENDS Integers, Sequences, FiniteSets, TLC

VARIABLES
    book,       \* AddressBook.data: the entries, in dict (insertion) order
    detached,   \* the Record the caller holds that is not (yet) in the book
    last,       \* the last call: operation, arguments, return value / exception
    pc          \* the process running main(): "running", "exited", "crashed"

vars == <<book, detached, last, pc>>

None == <<>>
Some(x) == <<x>>

-----------------------------------------------------------------------------
(* Characters and strings *)

AsciiDigits == {"0", "1", "2", "3", "4", "5", "6", "7", "8", "9"}

\* U+00B2 SUPERSCRIPT TWO: Numeric_Type=Digit, not a decimal (Nd) character
SuperscriptTwo == "U+00B2"

\* the characters c for which Python's c.isdigit() is true
DigitChars == AsciiDigits \cup {SuperscriptTwo}

\* str.isdigit(): at least one character and every character a digit
isdigit(s) == Len(s) > 0 /\ \A i \in 1..Len(s) : s[i] \in DigitChars

\* int() of an ASCII digit
DigitVal(c) ==
    CASE c = "0" -> 0 [] c = "1" -> 1 [] c = "2" -> 2 [] c = "3" -> 3
      [] c = "4" -> 4 [] c = "5" -> 5 [] c = "6" -> 6 [] c = "7" -> 7
      [] c = "8" -> 8 [] c = "9" -> 9

DigitChar(n) ==
    CASE n = 0 -> "0" [] n = 1 -> "1" [] n = 2 -> "2" [] n = 3 -> "3"
      [] n = 4 -> "4" [] n = 5 -> "5" [] n = 6 -> "6" [] n = 7 -> "7"
      [] n = 8 -> "8" [] n = 9 -> "9"

RECURSIVE IntOf(_)
IntOf(s) == IF Len(s) = 0 THEN 0
            ELSE 10 * IntOf(SubSeq(s, 1, Len(s) - 1)) + DigitVal(s[Len(s)])

\* the decimal rendering of n, zero-padded to w characters (%0wd)
RECURSIVE Pad(_, _)
Pad(n, w) == IF w = 0 THEN <<>> ELSE Pad(n \div 10, w - 1) \o <<DigitChar(n % 10)>>


-----------------------------------------------------------------------------
(* Dates: datetime values as produced by strptime("%d.%m.%Y") *)

\* the number of time units the model divides a day into (the instants
\* datetime.now() can return between two midnights)
UnitsPerDay == 2

IsLeap(y) == y % 4 = 0 /\ (y % 100 # 0 \/ y % 400 = 0)

DaysInMonth(y, m) ==
    IF m = 2 THEN (IF IsLeap(y) THEN 29 ELSE 28)
    ELSE IF m \in {4, 6, 9, 11} THEN 30 ELSE 31

DaysBeforeYear(y) ==
    (y - 1) * 365 + (y - 1) \div 4 - (y - 1) \div 100 + (y - 1) \div 400

RECURSIVE DaysBeforeMonth(_, _)
DaysBeforeMonth(y, m) ==
    IF m = 1 THEN 0 ELSE DaysBeforeMonth(y, m - 1) + DaysInMonth(y, m - 1)

\* date.toordinal(): 0001-01-01 is day 1
ToOrdinal(dt) == DaysBeforeYear(dt.year) + DaysBeforeMonth(dt.year, dt.month) + dt.day

\* the instant of a parsed date (midnight), in time units
Instant(dt) == ToOrdinal(dt) * UnitsPerDay

\* the regular expression strptime builds for %d: 3[0-1]|[1-2]\d|0[1-9]|[1-9]| [1-9]
DayMatch(s) ==
    \/ Len(s) = 2 /\ s[1] = "3" /\ s[2] \in {"0", "1"}
    \/ Len(s) = 2 /\ s[1] \in {"1", "2"} /\ s[2] \in AsciiDigits
    \/ Len(s) = 2 /\ s[1] \in {"0", " "} /\ s[2] \in AsciiDigits \ {"0"}
    \/ Len(s) = 1 /\ s[1] \in AsciiDigits \ {"0"}

\* the regular expression for %m: 1[0-2]|0[1-9]|[1-9]
MonthMatch(s) ==
    \/ Len(s) = 2 /\ s[1] = "1" /\ s[2] \in {"0", "1", "2"}
    \/ Len(s) = 2 /\ s[1] = "0" /\ s[2] \in AsciiDigits \ {"0"}
    \/ Len(s) = 1 /\ s[1] \in AsciiDigits \ {"0"}

\* the regular expression for %Y: \d\d\d\d
YearMatch(s) == Len(s) = 4 /\ \A i \in 1..4 : s[i] \in AsciiDigits

\* int() of a matched group: surrounding blanks are ignored
RECURSIVE Strip(_)
Strip(s) == IF Len(s) > 0 /\ s[1] = " " THEN Strip(Tail(s)) ELSE s

\* datetime.strptime(value, "%d.%m.%Y"): the datetime, or ValueError.  The
\* whole string has to match <day>.<month>.<year> and the three numbers have
\* to form a date of the proleptic Gregorian calendar, year 1 or later.
strptime(value) ==
    LET dots == {i \in 1..Len(value) : value[i] = "."} IN
    IF Cardinality(dots) # 2 THEN [raised |-> "ValueError", value |-> None]
    ELSE
      LET p1 == CHOOSE i \in dots : \A j \in dots : i <= j
          p2 == CHOOSE i \in dots : \A j \in dots : j <= i
          ds == SubSeq(value, 1, p1 - 1)
          ms == SubSeq(value, p1 + 1, p2 - 1)
          ys == SubSeq(value, p2 + 1, Len(value))
      IN IF ~(DayMatch(ds) /\ MonthMatch(ms) /\ YearMatch(ys))
         THEN [raised |-> "ValueError", value |-> None]
         ELSE
           LET d == IntOf(Strip(ds))
               m == IntOf(ms)
               y == IntOf(ys)
           IN IF y < 1 \/ d > DaysInMonth(y, m)
              THEN [raised |-> "ValueError", value |-> None]
              ELSE [raised |-> "",
                    value |-> Some([year |-> y, month |-> m, day |-> d])]

\* datetime.strftime('%d.%m.%Y') (years of four digits)
strftime(dt) ==
    Pad(dt.day, 2) \o <<".">> \o Pad(dt.month, 2) \o <<".">> \o Pad(dt.year, 4)

\* str(datetime) of a datetime at midnight: "YYYY-MM-DD 00:00:00"
datetime__str__(dt) ==
    Pad(dt.year, 4) \o <<"-">> \o Pad(dt.month, 2) \o <<"-">> \o Pad(dt.day, 2)
      \o <<" ", "0", "0", ":", "0", "0", ":", "0", "0">>

-----------------------------------------------------------------------------
(* Fields.  The outcome of a constructor is [raised, value]: the exception  *)
(* raised ("" if none) and the constructed field's value (None if raised).  *)

\* the length Phone.__init__ demands
PhoneLen == 10

\* Name without the emptiness check
Name_Unchecked(value) == [raised |-> "", value |-> Some(value)]

Name(value) ==
    IF value = "" THEN [raised |-> "ValueError", value |-> None]
    ELSE [raised |-> "", value |-> Some(value)]

Phone(value) ==
    IF ~isdigit(value) \/ Len(value) # PhoneLen
    THEN [raised |-> "ValueError", value |-> None]
    ELSE [raised |-> "", value |-> Some(value)]

Birthday(value) == strptime(value)

\* Field.__str__ as inherited by Birthday: str(self.value), self.value a datetime
Birthday__str__(dt) == datetime__str__(dt)

-----------------------------------------------------------------------------
(* Record.  A record is [name, phones, birthday]: the Name's value, the     *)
(* values of the Phone objects in list order, and the optional Birthday's   *)
(* value.  The outcome of a method is [rec, raised, ret]: the record after  *)
(* the call, the exception raised and the value returned.                   *)

\* Record.__init__: [raised, value], value the optional new record
Record(name) ==
    LET n == Name(name) IN
    IF n.raised # "" THEN [raised |-> n.raised, value |-> None]
    ELSE [raised |-> "",
          value |-> Some([name |-> n.value[1], phones |-> <<>>, birthday |-> None])]

\* the indexes of the phones whose value equals phone, and the first of them
Matches(phones, phone) == {i \in 1..Len(phones) : phones[i] = phone}
\* the last matching index instead of the first
FirstMatch_Last(phones, phone) ==
    CHOOSE i \in Matches(phones, phone) : \A j \in Matches(phones, phone) : j <= i

FirstMatch(phones, phone) ==
    CHOOSE i \in Matches(phones, phone) : \A j \in Matches(phones, phone) : i <= j

RemoveAt(seq, i) == SubSeq(seq, 1, i - 1) \o SubSeq(seq, i + 1, Len(seq))

add_phone(r, phone) ==
    LET p == Phone(phone) IN
    IF p.raised # "" THEN [rec |-> r, raised |-> p.raised, ret |-> None]
    ELSE [rec |-> [r EXCEPT !.phones = Append(@, p.value[1])],
          raised |-> "", ret |-> None]

remove_phone(r, phone) ==
    IF Matches(r.phones, phone) = {}
    THEN [rec |-> r, raised |-> "", ret |-> FALSE]
    ELSE [rec |-> [r EXCEPT !.phones = RemoveAt(@, FirstMatch(r.phones, phone))],
          raised |-> "", ret |-> TRUE]

\* edit_phone that drops the old phone before it validates the new one
edit_phone_ReplaceFirst(r, old_phone, new_phone) ==
    IF Matches(r.phones, old_phone) = {}
    THEN [rec |-> r, raised |-> "", ret |-> FALSE]
    ELSE LET i == FirstMatch(r.phones, old_phone)
             p == Phone(new_phone)
         IN IF p.raised # ""
            THEN [rec |-> [r EXCEPT !.phones = RemoveAt(@, i)],
                  raised |-> p.raised, ret |-> None]
            ELSE [rec |-> [r EXCEPT !.phones[i] = p.value[1]],
                  raised |-> "", ret |-> TRUE]

\* edit_phone that validates the new phone before it looks for the old one
edit_phone_ValidateFirst(r, old_phone, new_phone) ==
    LET p == Phone(new_phone) IN
    IF p.raised # "" THEN [rec |-> r, raised |-> p.raised, ret |-> None]
    ELSE IF Matches(r.phones, old_phone) = {}
    THEN [rec |-> r, raised |-> "", ret |-> FALSE]
    ELSE [rec |-> [r EXCEPT !.phones[FirstMatch(r.phones, old_phone)] = p.value[1]],
          raised |-> "", ret |-> TRUE]

edit_phone(r, old_phone, new_phone) ==
    IF Matches(r.phones, old_phone) = {}
    THEN [rec |-> r, raised |-> "", ret |-> FALSE]
    ELSE LET i == FirstMatch(r.phones, old_phone)
             p == Phone(new_phone)
         IN IF p.raised # "" THEN [rec |-> r, raised |-> p.raised, ret |-> None]
            ELSE [rec |-> [r EXCEPT !.phones[i] = p.value[1]],
                  raised |-> "", ret |-> TRUE]

add_birthday(r, birthday) ==
    LET b == Birthday(birthday) IN
    IF b.raised # "" THEN [rec |-> r, raised |-> b.raised, ret |-> None]
    ELSE [rec |-> [r EXCEPT !.birthday = b.value], raised |-> "", ret |-> None]

-----------------------------------------------------------------------------
(* AddressBook.  The dict is the sequence of its entries [key, rec] in      *)
(* insertion order; assigning to an existing key keeps the key's place.     *)

Keys(bk) == {bk[i].key : i \in 1..Len(bk)}
IndexOf(bk, name) == CHOOSE i \in 1..Len(bk) : bk[i].key = name

\* add_record that merges into an existing entry: the old phones are kept
add_record_Merge(bk, record) ==
    IF record.name \in Keys(bk)
    THEN [bk EXCEPT ![IndexOf(bk, record.name)].rec =
             [record EXCEPT !.phones = bk[IndexOf(bk, record.name)].rec.phones \o @]]
    ELSE Append(bk, [key |-> record.name, rec |-> record])

add_record(bk, record) ==
    IF record.name \in Keys(bk)
    THEN [bk EXCEPT ![IndexOf(bk, record.name)].rec = record]
    ELSE Append(bk, [key |-> record.name, rec |-> record])

find(bk, name) ==
    IF name \in Keys(bk) THEN Some(bk[IndexOf(bk, name)].rec) ELSE None

delete(bk, name) ==
    IF name \in Keys(bk) THEN RemoveAt(bk, IndexOf(bk, name)) ELSE bk

\* the days of the window of get_upcoming_birthdays
WindowDays == 7

\* the window without its last instant: today <= birthday < next_week
InWindow_Exclusive(birthday, today) ==
    LET next_week == today + WindowDays * UnitsPerDay
    IN today <= Instant(birthday) /\ Instant(birthday) < next_week

\* today <= birthday <= next_week
InWindow(birthday, today) ==
    LET next_week == today + WindowDays * UnitsPerDay
    IN today <= Instant(birthday) /\ Instant(birthday) <= next_week

RECURSIVE get_upcoming_birthdays(_, _)
get_upcoming_birthdays(bk, today) ==
    IF Len(bk) = 0 THEN <<>>
    ELSE LET record == bk[1].rec
             rest == get_upcoming_birthdays(Tail(bk), today)
         IN IF record.birthday # None /\ InWindow(record.birthday[1], today)
            THEN <<record>> \o rest
            ELSE rest

-----------------------------------------------------------------------------
(* Inputs *)

P1     == <<"1", "2", "3", "4", "5", "6", "7", "8", "9", "0">>
P2     == <<"1", "1", "1", "2", "2", "2", "3", "3", "3", "3">>
PSup   == <<"1", "2", "3", "4", "5", "6", "7", "8", "9", SuperscriptTwo>>
PShort == <<"1", "2", "3", "4", "5">>
PLong  == <<"1", "2", "3", "4", "5", "6", "7", "8", "9", "0", "1">>
PAlpha == <<"1", "2", "3", "4", "5", "6", "7", "8", "9", "a">>
PEmpty == <<>>

\* the phone arguments of the calls on a single Record
PhoneInputs == {P1, P2, PSup, PShort, PLong, PAlpha, PEmpty}
\* the phone arguments of the calls on the records of a book
BookPhoneInputs == {P1, PShort}

D1   == <<"0", "1", ".", "0", "3", ".", "2", "0", "2", "4">>
DBad == <<"2", "9", ".", "0", "2", ".", "2", "0", "2", "3">>
BirthdayInputs == {D1, DBad}

NameInputs == {"John", "Jane", ""}

\* the longest phone list of a single Record, and of a record of a book
MaxPhones == 3
BookMaxPhones == 1

\* datetime.now(): every instant of NowSpan time units from 22.02.2024 00:00
\* (eight days before 01.03.2024), 01.03.2024 00:00 and the instant after it,
\* and an instant of the year after
NowSpan == 5
NowBase == Instant([year |-> 2024, month |-> 2, day |-> 22])
NowInstants ==
    {NowBase + k : k \in 0..NowSpan}
      \cup {Instant([year |-> 2024, month |-> 3, day |-> 1]) + k : k \in {0, 1}}
      \cup {Instant([year |-> 2025, month |-> 2, day |-> 25]) + 1}

-----------------------------------------------------------------------------
(* The calls of a caller of the core.  A target is 0, the record the caller *)
(* holds outside the book, or the index of an entry of the book (a record   *)
(* obtained by find).                                                       *)

Targets == (IF detached = None THEN {} ELSE {0}) \cup (1..Len(book))
RecOf(bk, det, t) == IF t = 0 THEN det[1] ELSE bk[t].rec

Call(op, t, args, raised, ret) ==
    [op |-> op, target |-> t, args |-> args, raised |-> raised, ret |-> ret]

\* the record of target t becomes r
Store(t, r) ==
    IF t = 0 THEN detached' = Some(r) /\ UNCHANGED book
    ELSE book' = [book EXCEPT ![t].rec = r] /\ UNCHANGED detached

NewRecord(name) ==
    LET o == Record(name) IN
    /\ detached' = (IF o.raised # "" THEN detached ELSE o.value)
    /\ last' = Call("Record", 0, <<name>>, o.raised, None)
    /\ UNCHANGED <<book, pc>>

AddPhone(t, phone, cap) ==
    /\ t \in Targets
    /\ Len(RecOf(book, detached, t).phones) < cap
    /\ LET o == add_phone(RecOf(book, detached, t), phone) IN
         /\ Store(t, o.rec)
         /\ last' = Call("add_phone", t, <<phone>>, o.raised, o.ret)
    /\ UNCHANGED pc

RemovePhone(t, phone) ==
    /\ t \in Targets
    /\ LET o == remove_phone(RecOf(book, detached, t), phone) IN
         /\ Store(t, o.rec)
         /\ last' = Call("remove_phone", t, <<phone>>, o.raised, o.ret)
    /\ UNCHANGED pc

EditPhone(t, old_phone, new_phone) ==
    /\ t \in Targets
    /\ LET o == edit_phone(RecOf(book, detached, t), old_phone, new_phone) IN
         /\ Store(t, o.rec)
         /\ last' = Call("edit_phone", t, <<old_phone, new_phone>>, o.raised, o.ret)
    /\ UNCHANGED pc

AddBirthday(t, birthday) ==
    /\ t \in Targets
    /\ LET o == add_birthday(RecOf(book, detached, t), birthday) IN
         /\ Store(t, o.rec)
         /\ last' = Call("add_birthday", t, <<birthday>>, o.raised, o.ret)
    /\ UNCHANGED pc

\* book.add_record(record) of the record the caller holds; from then on the
\* caller's reference is a reference to the book's entry
AddRecord ==
    /\ detached # None
    /\ book' = add_record(book, detached[1])
    /\ detached' = None
    /\ last' = Call("add_record", 0, <<detached[1]>>, "", None)
    /\ UNCHANGED pc

Find(name) ==
    /\ last' = Call("find", 0, <<name>>, "", find(book, name))
    /\ UNCHANGED <<book, detached, pc>>

Delete(name) ==
    /\ book' = delete(book, name)
    /\ last' = Call("delete", 0, <<name>>, "", None)
    /\ UNCHANGED <<detached, pc>>

GetUpcomingBirthdays(today) ==
    /\ last' = Call("get_upcoming_birthdays", 0, <<today>>, "",
                    get_upcoming_birthdays(book, today))
    /\ UNCHANGED <<book, detached, pc>>

Init ==
    /\ book = <<>>
    /\ detached = None
    /\ last = Call("init", 0, <<>>, "", None)
    /\ pc = "running"

\* the calls on one Record
NextRecord ==
    \/ \E name \in NameInputs : NewRecord(name)
    \/ \E phone \in PhoneInputs : AddPhone(0, phone, MaxPhones)
    \/ \E phone \in PhoneInputs : RemovePhone(0, phone)
    \/ \E old_phone, new_phone \in PhoneInputs : EditPhone(0, old_phone, new_phone)

SpecRecord == Init /\ [][NextRecord]_vars

\* the calls on a book and its records
Next ==
    \/ \E name \in NameInputs : NewRecord(name)
    \/ \E t \in Targets, phone \in BookPhoneInputs : AddPhone(t, phone, BookMaxPhones)
    \/ \E t \in Targets, phone \in BookPhoneInputs : RemovePhone(t, phone)
    \/ \E t \in Targets, old_phone, new_phone \in BookPhoneInputs :
          EditPhone(t, old_phone, new_phone)
    \/ \E t \in Targets, birthday \in BirthdayInputs : AddBirthday(t, birthday)
    \/ AddRecord
    \/ \E name \in NameInputs : Find(name)
    \/ \E name \in NameInputs : Delete(name)
    \/ \E today \in NowInstants : GetUpcomingBirthdays(today)

Spec == Init /\ [][Next]_vars

-----------------------------------------------------------------------------
(* Properties of Record (SpecRecord) *)

\* a string of exactly 10 digits, a digit being what str.isdigit() calls one
TenDigits(s) == Len(s) = 10 /\ \A i \in 1..Len(s) : s[i] \in DigitChars

\* a string of exactly 10 decimal digits 0..9
TenDecimalDigits(s) == Len(s) = 10 /\ \A i \in 1..Len(s) : s[i] \in AsciiDigits

\* the phone list of the last call's target before and after the call
PhonesBefore == RecOf(book, detached, last'.target).phones
PhonesAfter == RecOf(book', detached', last'.target).phones

C8_FirstMatchOnly ==
    [][/\ (/\ last'.op = "remove_phone"
           /\ \E i \in 1..Len(PhonesBefore) : PhonesBefore[i] = last'.args[1])
          => /\ last'.raised = ""
             /\ last'.ret = TRUE
             /\ Len(PhonesAfter) = Len(PhonesBefore) - 1
             /\ \E i \in 1..Len(PhonesBefore) :
                   /\ PhonesBefore[i] = last'.args[1]
                   /\ \A j \in 1..(i - 1) : PhonesBefore[j] # last'.args[1]
                   /\ \A j \in 1..(i - 1) : PhonesAfter[j] = PhonesBefore[j]
                   /\ \A j \in i..Len(PhonesAfter) : PhonesAfter[j] = PhonesBefore[j + 1]
       /\ (/\ last'.op = "edit_phone"
           /\ \E i \in 1..Len(PhonesBefore) : PhonesBefore[i] = last'.args[1]
           /\ TenDigits(last'.args[2]))
          => /\ last'.raised = ""
             /\ last'.ret = TRUE
             /\ Len(PhonesAfter) = Len(PhonesBefore)
             /\ \E i \in 1..Len(PhonesBefore) :
                   /\ PhonesBefore[i] = last'.args[1]
                   /\ \A j \in 1..(i - 1) : PhonesBefore[j] # last'.args[1]
                   /\ PhonesAfter[i] = last'.args[2]
                   /\ \A j \in 1..Len(PhonesBefore) :
                         j # i => PhonesAfter[j] = PhonesBefore[j]]_vars

\* an edit_phone has replaced the first of two equal phones: the new phone
\* stands before a remaining copy of the old one
C8_Witness ==
    /\ last.op = "edit_phone"
    /\ last.raised = ""
    /\ last.ret = TRUE
    /\ last.args[1] # last.args[2]
    /\ Len(detached[1].phones) = 3
    /\ detached[1].phones[1] = last.args[2]
    /\ detached[1].phones[3] = last.args[1]

\* C4: every element of a record's phone list is a string of exactly 10
\* decimal digits; add_phone with any other string raises a validation error
\* and leaves the list unaffected; add_phone with such a string appends it,
\* also when an identical number is already present.
C4_PhonesAreTenDecimalDigits ==
    [][/\ detached' # None
          => \A i \in 1..Len(detached'[1].phones) :
                TenDecimalDigits(detached'[1].phones[i])
       /\ (last'.op = "add_phone" /\ ~TenDecimalDigits(last'.args[1]))
          => (last'.raised = "ValueError" /\ PhonesAfter = PhonesBefore)
       /\ (last'.op = "add_phone" /\ TenDecimalDigits(last'.args[1]))
          => (last'.raised = "" /\ PhonesAfter = Append(PhonesBefore, last'.args[1]))
      ]_vars

-----------------------------------------------------------------------------
(* Properties of AddressBook (Spec) *)

\* C2: add_record(r) with r's name the key of an existing entry replaces that
\* entry entirely: the entry under the name is r (its phones, its birthday),
\* the number of entries is unchanged and every other entry is untouched.
C2_AddRecordReplaces ==
    [][(/\ last'.op = "add_record"
        /\ \E i \in 1..Len(book) : book[i].key = detached[1].name)
       => /\ Len(book') = Len(book)
          /\ \A i \in 1..Len(book) :
                /\ book'[i].key = book[i].key
                /\ book[i].key = detached[1].name
                     => /\ book'[i].rec = detached[1]
                        /\ book'[i].rec.phones = detached[1].phones
                        /\ book'[i].rec.birthday = detached[1].birthday
                /\ book[i].key # detached[1].name => book'[i].rec = book[i].rec]_vars

\* add_record has just stored its record (with a phone and a birthday) in
\* the first of two entries: an append would have put it last, so the record
\* replaced the entry of that name
C2_Witness ==
    /\ last.op = "add_record"
    /\ Len(book) = 2
    /\ book[1].key = last.args[1].name
    /\ book[1].rec = last.args[1]
    /\ book[1].rec.phones # <<>>
    /\ book[1].rec.birthday # None

\* the entries of bk whose record has a birthday b with today <= b <= today + 7 days
Due(bk, today) ==
    {i \in 1..Len(bk) :
        /\ bk[i].rec.birthday # None
        /\ today <= Instant(bk[i].rec.birthday[1])
        /\ Instant(bk[i].rec.birthday[1]) <= today + 7 * UnitsPerDay}

\* C3: get_upcoming_birthdays() at instant now returns exactly the records of
\* the book with a birthday b, now <= b <= now + 7 days (both ends included,
\* the year taken literally), and does not modify the book.
C3_UpcomingWindow ==
    [][last'.op = "get_upcoming_birthdays"
       => /\ book' = book
          /\ detached' = detached
          /\ last'.raised = ""
          /\ Len(last'.ret) = Cardinality(Due(book, last'.args[1]))
          /\ \A i \in 1..Len(book) :
                i \in Due(book, last'.args[1])
                  <=> \E j \in 1..Len(last'.ret) : last'.ret[j] = book[i].rec]_vars

\* the query ran exactly 7 days before the birthday of both records of the
\* book and returned both, in the book's order
C3_Witness ==
    /\ last.op = "get_upcoming_birthdays"
    /\ Len(book) = 2
    /\ \A i \in 1..2 :
          /\ book[i].rec.birthday # None
          /\ Instant(book[i].rec.birthday[1]) = last.args[1] + 7 * UnitsPerDay
    /\ last.ret = <<book[1].rec, book[2].rec>>

\* C7: not-found is signalled by the return value and changes nothing:
\* find of an unknown name returns None, delete of an unknown name is a
\* no-op, remove_phone and edit_phone return False when no phone equals the
\* one looked for (for every new phone, valid or not); nothing is raised.
C7_NotFoundByReturnValue ==
    [][/\ (last'.op = "find" /\ \A i \in 1..Len(book) : book[i].key # last'.args[1])
          => /\ last'.raised = "" /\ last'.ret = None
             /\ book' = book /\ detached' = detached
       /\ (last'.op = "delete" /\ \A i \in 1..Len(book) : book[i].key # last'.args[1])
          => /\ last'.raised = ""
             /\ book' = book /\ detached' = detached
       /\ (/\ last'.op \in {"remove_phone", "edit_phone"}
           /\ \A i \in 1..Len(PhonesBefore) : PhonesBefore[i] # last'.args[1])
          => /\ last'.raised = "" /\ last'.ret = FALSE
             /\ book' = book /\ detached' = detached]_vars

\* edit_phone on a record of the book that has a phone, looking for a phone
\* that is not in its list, with an invalid new phone, has returned False
C7_Witness ==
    /\ last.op = "edit_phone"
    /\ last.target > 0
    /\ last.ret = FALSE
    /\ ~TenDigits(last.args[2])
    /\ book[last.target].rec.phones # <<>>
    /\ Matches(book[last.target].rec.phones, last.args[1]) = {}

\* C9: every key of the book is a non-empty string equal to the name of the
\* record stored under it, and no two entries share a name.
C9_KeysAreNames ==
    /\ \A i \in 1..Len(book) :
          /\ book[i].key # ""
          /\ book[i].key = book[i].rec.name
          /\ find(book, book[i].key) = Some(book[i].rec)
    /\ \A i, j \in 1..Len(book) : book[i].key = book[j].key => i = j

\* Record("") has been refused while the book holds two records
C9_Witness ==
    /\ Len(book) = 2
    /\ last.op = "Record"
    /\ last.args[1] = ""
    /\ last.raised = "ValueError"

-----------------------------------------------------------------------------
(* Field construction and rendering (SpecField) *)

DayTexts ==
    {<<"0", "1">>, <<"1">>, <<" ", "1">>, <<"1", "0">>, <<"2", "9">>,
     <<"3", "0">>, <<"3", "1">>, <<"3", "2">>, <<"0", "0">>, <<"1", "a">>}
MonthTexts ==
    {<<"0", "2">>, <<"2">>, <<"0", "4">>, <<"1", "2">>, <<"1", "3">>, <<"0", "0">>}
YearTexts ==
    {<<"2", "0", "2", "4">>, <<"1", "9", "9", "0">>, <<"1", "9", "0", "0">>,
     <<"0", "0", "0", "0">>, <<"2", "0", "2">>, <<"2", "0", "2", "4", "5">>}
Separators == {".", "/"}

\* the birthday arguments of the field constructions
DateInputs ==
    {d \o <<sep>> \o m \o <<sep>> \o y :
        d \in DayTexts, m \in MonthTexts, y \in YearTexts, sep \in Separators}
      \cup {<<>>}

\* Birthday(value)
NewBirthday(value) ==
    LET o == Birthday(value) IN
    /\ last' = Call("Birthday", 0, <<value>>, o.raised, o.value)
    /\ UNCHANGED <<book, detached, pc>>

\* str(birthday) of the Birthday just constructed
StrBirthday ==
    /\ last.op = "Birthday"
    /\ last.raised = ""
    /\ last' = Call("Birthday.__str__", 0, last.args, "", Birthday__str__(last.ret[1]))
    /\ UNCHANGED <<book, detached, pc>>

NextField ==
    \/ \E value \in DateInputs : NewBirthday(value)
    \/ StrBirthday

SpecField == Init /\ [][NextField]_vars

\* a string <day>.<month>.<year> as strptime's %d.%m.%Y reads it (a day and a
\* month of one or two digits, the day possibly blank-padded, a year of four
\* digits) that denotes a date of the calendar
DenotesDate(s) ==
    \E p1, p2 \in 1..Len(s) :
       /\ p1 < p2
       /\ \A i \in 1..Len(s) : s[i] = "." <=> i \in {p1, p2}
       /\ p1 \in {2, 3} /\ p2 - p1 \in {2, 3} /\ Len(s) - p2 = 4
       /\ \A i \in 1..Len(s) :
             i \notin {p1, p2} => s[i] \in AsciiDigits \/ (i = 1 /\ p1 = 3 /\ s[i] = " ")
       /\ LET d == IntOf(Strip(SubSeq(s, 1, p1 - 1)))
              m == IntOf(SubSeq(s, p1 + 1, p2 - 1))
              y == IntOf(SubSeq(s, p2 + 1, Len(s)))
          IN /\ y >= 1
             /\ m \in 1..12
             /\ d >= 1
             /\ d <= (IF m = 2 THEN (IF y % 4 = 0 /\ (y % 100 # 0 \/ y % 400 = 0)
                                     THEN 29 ELSE 28)
                      ELSE IF m \in {4, 6, 9, 11} THEN 30 ELSE 31)

\* a string of the form DD.MM.YYYY: two digits, two digits, four digits
IsDDMMYYYY(s) ==
    /\ Len(s) = 10
    /\ s[3] = "." /\ s[6] = "."
    /\ \A i \in {1, 2, 4, 5, 7, 8, 9, 10} : s[i] \in AsciiDigits

\* C6: for every string DD.MM.YYYY of a valid calendar date, constructing a
\* Birthday succeeds and the string representation of the Birthday field is
\* the identical string; for every string that does not parse as such a
\* date, construction fails with a validation error.
C6_BirthdayRoundTrip ==
    /\ last.op = "Birthday"
          => /\ (IsDDMMYYYY(last.args[1]) /\ DenotesDate(last.args[1]))
                   => last.raised = ""
             /\ ~DenotesDate(last.args[1]) => last.raised = "ValueError"
    /\ (last.op = "Birthday.__str__" /\ IsDDMMYYYY(last.args[1]))
          => last.ret = last.args[1]

-----------------------------------------------------------------------------
(* The command loop of task02.py (SpecCLI).  The outcome of a handler is    *)
(* [book, raised, ret]: the book after the call, the exception that left    *)
(* the handler and the string returned.  A string built by the code is the  *)
(* sequence of its pieces; str(e) of an exception is the exception's type.  *)

Outcome(bk, raised, ret) == [book |-> bk, raised |-> raised, ret |-> ret]

\* the decorator: ValueError and IndexError become the string "Error: <str(e)>"
input_error(o) ==
    IF o.raised \in {"ValueError", "IndexError"}
    THEN Outcome(o.book, "", <<"Error: ", o.raised>>)
    ELSE o

\* a method call on the record that find() returned: the entry's record changes
Mutated(bk, name, r) == [bk EXCEPT ![IndexOf(bk, name)].rec = r]

\* the decorated add_contact(args, book)
add_contact(args, bk) ==
    input_error(
      IF Len(args) < 2 THEN Outcome(bk, "ValueError", None)
      ELSE
        LET name == args[1]
            phone == args[2]
            found == find(bk, name)
            made == Record(name)
        IN IF found = None /\ made.raised # "" THEN Outcome(bk, made.raised, None)
           ELSE
             LET record == IF found = None THEN made.value[1] ELSE found[1]
                 bk1 == IF found = None THEN add_record(bk, record) ELSE bk
                 message == IF found = None THEN <<"Contact added.">>
                            ELSE <<"Contact updated.">>
             IN IF phone = <<>> THEN Outcome(bk1, "", message)
                ELSE LET o == add_phone(record, phone) IN
                     IF o.raised # "" THEN Outcome(bk1, o.raised, None)
                     ELSE Outcome(Mutated(bk1, name, o.rec), "", message))

\* the decorated add_birthday(args, book)
cmd_add_birthday(args, bk) ==
    input_error(
      IF Len(args) # 2 THEN Outcome(bk, "ValueError", None)
      ELSE
        LET name == args[1]
            found == find(bk, name)
        IN IF found = None THEN Outcome(bk, "", <<"Contact ", name, " not found.">>)
           ELSE LET o == add_birthday(found[1], args[2]) IN
                IF o.raised # "" THEN Outcome(bk, o.raised, None)
                ELSE Outcome(Mutated(bk, name, o.rec), "",
                             <<"Birthday for ", name, " added.">>))

\* the decorated show_birthday(args, book)
show_birthday(args, bk) ==
    input_error(
      IF Len(args) < 1 THEN Outcome(bk, "IndexError", None)
      ELSE
        LET name == args[1]
            found == find(bk, name)
        IN IF found # None /\ found[1].birthday # None
           THEN Outcome(bk, "", <<name, "'s birthday is on ">>
                                   \o strftime(found[1].birthday[1]))
           ELSE IF found # None
           THEN Outcome(bk, "", <<name, " does not have a birthday set.">>)
           ELSE Outcome(bk, "", <<"Contact ", name, " not found.">>))

RECURSIVE BirthdayLines(_)
BirthdayLines(records) ==
    IF Len(records) = 0 THEN <<>>
    ELSE (<<records[1].name, "'s birthday is on ">>
            \o strftime(records[1].birthday[1])
            \o (IF Len(records) > 1 THEN <<"\n">> ELSE <<>>))
         \o BirthdayLines(Tail(records))

\* the decorated birthdays(args, book), called at instant today
birthdays(args, bk, today) ==
    input_error(
      LET upcoming == get_upcoming_birthdays(bk, today) IN
      IF upcoming # <<>> THEN Outcome(bk, "", BirthdayLines(upcoming))
      ELSE Outcome(bk, "", <<"No upcoming birthdays in the next week.">>))

\* the "change" branch of main(): not decorated
main_change(args, bk) ==
    IF Len(args) # 3 THEN Outcome(bk, "ValueError", None)
    ELSE
      LET name == args[1]
          found == find(bk, name)
      IN IF found = None THEN Outcome(bk, "", <<"Contact ", name, " not found.">>)
         ELSE LET o == edit_phone(found[1], args[2], args[3]) IN
              IF o.raised # "" THEN Outcome(bk, o.raised, None)
              ELSE Outcome(Mutated(bk, name, o.rec), "",
                           <<IF o.ret THEN "True" ELSE "False">>)

\* the "phone" branch of main(): not decorated
main_phone(args, bk) ==
    IF Len(args) < 1 THEN Outcome(bk, "IndexError", None)
    ELSE
      LET found == find(bk, args[1]) IN
      IF found # None THEN Outcome(bk, "", <<"Phones: ", found[1].phones>>)
      ELSE Outcome(bk, "", <<"Contact ", args[1], " not found.">>)

\* the tokens parse_input() yields: lower-case, non-empty, free of blanks
CliNames == {"john", "jane"}
CliPhones == {P1, P2, PShort}
CliBirthdays == {D1, DBad}

\* the argument lists that follow each command word
AddArgs ==
    {<<>>} \cup {<<n>> : n \in CliNames}
      \cup {<<n, p>> : n \in CliNames, p \in CliPhones}
      \cup {<<n, P1, b>> : n \in CliNames, b \in CliBirthdays}
ChangeArgs ==
    {<<n>> : n \in CliNames}
      \cup {<<n, old, new>> : n \in CliNames, old \in CliPhones, new \in CliPhones}
NameArgs == {<<>>} \cup {<<n>> : n \in CliNames}
AddBirthdayArgs ==
    {<<n>> : n \in CliNames} \cup {<<n, b>> : n \in CliNames, b \in CliBirthdays}

\* the longest phone list the command loop is driven to
CliMaxPhones == 2

\* one turn of the loop that ran handler outcome o for command word command
Turn(command, args, o) ==
    /\ book' = o.book
    /\ pc' = IF o.raised # "" THEN "crashed" ELSE "running"
    /\ last' = Call(command, 0, args, o.raised, o.ret)
    /\ UNCHANGED detached

\* an empty line: command, *args = [] raises ValueError in main()
CmdEmptyLine ==
    /\ pc = "running"
    /\ Turn("", <<>>, Outcome(book, "ValueError", None))

CmdExit ==
    /\ pc = "running"
    /\ pc' = "exited"
    /\ last' = Call("exit", 0, <<>>, "", <<"Good bye!">>)
    /\ UNCHANGED <<book, detached>>

CmdHello ==
    /\ pc = "running"
    /\ Turn("hello", <<>>, Outcome(book, "", <<"How can I help you?">>))

CmdAdd(args) ==
    /\ pc = "running"
    /\ (Len(args) >= 2 /\ find(book, args[1]) # None)
          => Len(find(book, args[1])[1].phones) < CliMaxPhones
    /\ Turn("add", args, add_contact(args, book))

CmdChange(args) ==
    /\ pc = "running"
    /\ Turn("change", args, main_change(args, book))

CmdPhone(args) ==
    /\ pc = "running"
    /\ Turn("phone", args, main_phone(args, book))

\* "all" prints every record
CmdAll ==
    /\ pc = "running"
    /\ Turn("all", <<>>, Outcome(book, "", [i \in 1..Len(book) |-> book[i].rec]))

CmdAddBirthday(args) ==
    /\ pc = "running"
    /\ Turn("add-birthday", args, cmd_add_birthday(args, book))

CmdShowBirthday(args) ==
    /\ pc = "running"
    /\ Turn("show-birthday", args, show_birthday(args, book))

CmdBirthdays(today) ==
    /\ pc = "running"
    /\ Turn("birthdays", <<>>, birthdays(<<>>, book, today))

CmdInvalid ==
    /\ pc = "running"
    /\ Turn("other", <<>>, Outcome(book, "", <<"Invalid command.">>))

NextCLI ==
    \/ CmdEmptyLine
    \/ CmdExit
    \/ CmdHello
    \/ \E args \in AddArgs : CmdAdd(args)
    \/ \E args \in ChangeArgs : CmdChange(args)
    \/ \E args \in NameArgs : CmdPhone(args)
    \/ CmdAll
    \/ \E args \in AddBirthdayArgs : CmdAddBirthday(args)
    \/ \E args \in NameArgs : CmdShowBirthday(args)
    \/ \E today \in NowInstants : CmdBirthdays(today)
    \/ CmdInvalid

SpecCLI == Init /\ [][NextCLI]_vars

\* the argument lists that match the arity of the command's code
RightArity(command, args) ==
    CASE command = "add" -> Len(args) >= 2
      [] command = "change" -> Len(args) = 3
      [] command = "add-birthday" -> Len(args) = 2
      [] command \in {"show-birthday", "phone"} -> Len(args) >= 1
      [] command \in {"birthdays", "all"} -> TRUE
      [] OTHER -> FALSE

\* C5: for every command (add, change, add-birthday, show-birthday,
\* birthdays, phone, all) and every argument list of the right arity, also
\* an invalid new phone given to "change", a validation error is turned
\* into an "Error: ..." line and the process is not terminated by it.
C5_ErrorsCaughtAtDispatch ==
    RightArity(last.op, last.args) => (pc # "crashed" /\ last.raised = "")

\* C10: a handler that returns an "Error: ..." string has left the book as it
\* was: the same names, each with the same phones and birthday.
C10_ErrorLeavesBookUnchanged ==
    [][(/\ last'.op \in {"add", "add-birthday"}
        /\ last'.raised = ""
        /\ last'.ret[1] = "Error: ")
       => book' = book]_vars

=============================================================================
